---- MODULE Spec2Model ----
(***************************************************************************)
(* AmbulanceSim: junction light cycles, ambulance preemption, reflector    *)
(* chains.                                                                 *)
(*                                                                         *)
(* Units.  Every x coordinate of the program (path points, junction        *)
(* centres, reflectors, the ambulance after any number of 0.25 steps) is a *)
(* multiple of 0.25, so x is kept in quarter units (Q per world unit).     *)
(* The y and z coordinates are kept in 1/400 units (Q * Fine per world     *)
(* unit), which represents 0.05, 0.0075, 0.25 and 1.75 exactly.  Times are *)
(* in milliseconds (the code keeps seconds in floating point).             *)
(***************************************************************************)
EXTENDS Integers, Sequences, FiniteSets, TLC

VARIABLES pc, frame, deltaTime, shortFrames, activationPending, ambulance,
          junctions, statusText, preemptions, cars

vars == <<pc, frame, deltaTime, shortFrames, activationPending, ambulance,
          junctions, statusText, preemptions, cars>>

----------------------------------------------------------------------------
(* Scaling *)
Q == 4
Fine == 100

(* Config.js *)
RoadWidth == 8
RoadLength == 70
JunctionSize == 12
NumJunctions == 3
RoadSurfaceYFine == 20
AmbulanceSpeedQ == 1
AmbulanceFadeOutDuration == 2000
SirenDetectionRadius == 60
AmbulancePreemptionRadius == 150
AmbulanceLaneOffsetZFine == -700
TrafficLightGreenDuration == 8000
TrafficLightYellowDuration == 2000
ReflectorSpacing == 6
ReflectorDetectionChainRadius == 4

(* Bounds of the model *)
MaxDeltaTime == 50
ShortDeltaTime == 20
MaxShortFrames == 1
MaxLoadFrame == 1
MaxActivateFrame == 1500
ActivateStride == 128

Sign(n) == IF n > 0 THEN 1 ELSE IF n < 0 THEN -1 ELSE 0
Abs(n) == IF n < 0 THEN -n ELSE n

(* THREE.Vector3 *)
Vec(x, y, z) == [x |-> x, y |-> y, z |-> z]

(* a.distanceTo(b) < r, r in world units: dx^2 + dy^2 + dz^2 < r^2.  With  *)
(* dx in quarter units and dy, dz in 1/400 units this is                   *)
(* dx^2 + (dy^2 + dz^2) / Fine^2 < (Q r)^2, and as dx^2 and (Q r)^2 are    *)
(* integers the quotient may be replaced by its floor.                     *)
DistanceLess(a, b, r) ==
    LET dx == a.x - b.x
        dy == a.y - b.y
        dz == a.z - b.z
    IN  dx * dx + ((dy * dy + dz * dz) \div (Fine * Fine)) < (Q * r) * (Q * r)

----------------------------------------------------------------------------
(* main.js: JUNCTION_CYCLE_DEFINITION *)
JUNCTION_CYCLE_DEFINITION ==
    << [phase |-> "EW_GREEN",  duration |-> TrafficLightGreenDuration],
       [phase |-> "EW_YELLOW", duration |-> TrafficLightYellowDuration],
       [phase |-> "ALL_RED",   duration |-> 1000],
       [phase |-> "NS_GREEN",  duration |-> TrafficLightGreenDuration],
       [phase |-> "NS_YELLOW", duration |-> TrafficLightYellowDuration],
       [phase |-> "ALL_RED",   duration |-> 1000] >>

CycleLength == Len(JUNCTION_CYCLE_DEFINITION)

(* JUNCTION_CYCLE_DEFINITION[i] with the code's 0-based index *)
PhaseAt(i) == JUNCTION_CYCLE_DEFINITION[i + 1]

----------------------------------------------------------------------------
(* Road.js *)
TotalRoadLengthEW == (NumJunctions + 1) * RoadLength + NumJunctions * JunctionSize

JunctionIds == 0 .. (NumJunctions - 1)

(* Road.createRoadLayout / getJunctionCenter: centre of junction i *)
GetJunctionCenter(i) ==
    Vec((0 - TotalRoadLengthEW * Q) \div 2
            + (i + 1) * RoadLength * Q + i * JunctionSize * Q
            + (JunctionSize * Q) \div 2,
        RoadSurfaceYFine, 0)

AmbulanceYFine == RoadSurfaceYFine + 80

RECURSIVE JunctionWaypoints(_)
JunctionWaypoints(i) ==
    IF i >= NumJunctions THEN << >>
    ELSE LET c == GetJunctionCenter(i)
         IN << Vec(c.x - JunctionSize * Q, AmbulanceYFine, AmbulanceLaneOffsetZFine),
               Vec(c.x,                    AmbulanceYFine, AmbulanceLaneOffsetZFine),
               Vec(c.x + JunctionSize * Q, AmbulanceYFine, AmbulanceLaneOffsetZFine) >>
            \o JunctionWaypoints(i + 1)

RECURSIVE UniquePath(_, _)
UniquePath(p, i) ==
    IF i > Len(p) THEN << >>
    ELSE (IF i = 1 \/ p[i] # p[i - 1] THEN << p[i] >> ELSE << >>) \o UniquePath(p, i + 1)

(* Road.getAmbulancePath *)
GetAmbulancePath ==
    LET startX == (0 - TotalRoadLengthEW * Q) \div 2 - (RoadLength * Q * 2) \div 10
        endX   == (TotalRoadLengthEW * Q) \div 2 + (RoadLength * Q * 2) \div 10
        path   == << Vec(startX, AmbulanceYFine, AmbulanceLaneOffsetZFine) >>
                  \o JunctionWaypoints(0)
                  \o << Vec(endX, AmbulanceYFine, AmbulanceLaneOffsetZFine) >>
    IN  UniquePath(path, 1)

PathLength == Len(GetAmbulancePath)

(* ambulance.path[i] with the code's 0-based index *)
PathAt(i) == GetAmbulancePath[i + 1]

NumReflectors == RoadLength \div ReflectorSpacing

ReflectorIds == 0 .. (NumReflectors - 1)

ReflectorYFine == RoadSurfaceYFine - 17

(* Road.getReflectorPositions(junctionIndex, 'west'): the k-th position of *)
(* the returned (reversed) list                                            *)
GetReflectorPosition(j, k) ==
    LET c == GetJunctionCenter(j)
        segmentStartX == c.x - (JunctionSize * Q) \div 2 - RoadLength * Q
        i == (NumReflectors - 1) - k
    IN  Vec(segmentStartX + ((2 * i + 1) * ReflectorSpacing * Q) \div 2,
            ReflectorYFine, c.z)

(* SmartReflector.canDetectAmbulance *)
CanDetectAmbulance(j, k, ambulancePosition) ==
    DistanceLess(GetReflectorPosition(j, k), ambulancePosition, SirenDetectionRadius)

(* SmartReflector.isAmbulanceNear *)
IsAmbulanceNear(j, k, otherReflectorPosition) ==
    DistanceLess(GetReflectorPosition(j, k), otherReflectorPosition,
                 ReflectorDetectionChainRadius)

----------------------------------------------------------------------------
(* TrafficLight.js *)
LIGHT_STATE == {"RED", "YELLOW", "GREEN", "OFF"}

(* TrafficLight constructor: RED, not overridden *)
NewTrafficLight == [currentState |-> "RED", isOverridden |-> FALSE]

(* Mutant: the override guard is missing *)
SetLightStateUnguarded(light, state, isPriorityOverride) ==
    [light EXCEPT !.currentState = state]

(* TrafficLight.setLightState(state, isPriorityOverride) *)
SetLightState(light, state, isPriorityOverride) ==
    IF ~isPriorityOverride /\ light.isOverridden
    THEN light
    ELSE [light EXCEPT !.currentState = state]

(* Mutant: the colour is set through the normal path, not the override path *)
SetPriorityNormalPath(light, makeGreen) ==
    LET overridden == [light EXCEPT !.isOverridden = TRUE]
    IN  IF makeGreen THEN SetLightState(overridden, "GREEN", FALSE)
                     ELSE SetLightState(overridden, "RED", FALSE)

(* TrafficLight.setPriority(makeGreen) *)
SetPriority(light, makeGreen) ==
    LET overridden == [light EXCEPT !.isOverridden = TRUE]
    IN  IF makeGreen THEN SetLightState(overridden, "GREEN", TRUE)
                     ELSE SetLightState(overridden, "RED", TRUE)

(* Mutant: the override flag is not cleared *)
ReleasePriorityKeepsOverride(light) == light

(* TrafficLight.releasePriority *)
ReleasePriority(light) == [light EXCEPT !.isOverridden = FALSE]

----------------------------------------------------------------------------
(* main.js: junction control *)

(* The lights of a junction after setLight(junction.trafficLights[i], state) *)
SetLight(lights, i, state) ==
    [lights EXCEPT ![i] = SetLightState(lights[i], state, FALSE)]

(* Mutant: the four lights are not set RED before the phase's colours *)
ApplyJunctionPhaseStateNoReset(junction) ==
    IF Cardinality(DOMAIN junction.trafficLights) < 4
    THEN junction
    ELSE LET currentPhaseName == PhaseAt(junction.currentPhaseIndex).phase
             lights ==
                 CASE currentPhaseName = "EW_GREEN" ->
                          SetLight(SetLight(junction.trafficLights, 3, "GREEN"), 2, "GREEN")
                   [] currentPhaseName = "EW_YELLOW" ->
                          SetLight(SetLight(junction.trafficLights, 3, "YELLOW"), 2, "YELLOW")
                   [] currentPhaseName = "NS_GREEN" ->
                          SetLight(SetLight(junction.trafficLights, 1, "GREEN"), 0, "GREEN")
                   [] currentPhaseName = "NS_YELLOW" ->
                          SetLight(SetLight(junction.trafficLights, 1, "YELLOW"), 0, "YELLOW")
                   [] OTHER -> junction.trafficLights
         IN  [junction EXCEPT !.trafficLights = lights]

(* Simulation.applyJunctionPhaseState *)
ApplyJunctionPhaseState(junction) ==
    IF Cardinality(DOMAIN junction.trafficLights) < 4
    THEN junction
    ELSE LET currentPhaseName == PhaseAt(junction.currentPhaseIndex).phase
             allRed == SetLight(SetLight(SetLight(SetLight(
                           junction.trafficLights, 0, "RED"), 1, "RED"), 2, "RED"), 3, "RED")
             lights ==
                 CASE currentPhaseName = "EW_GREEN" ->
                          SetLight(SetLight(allRed, 3, "GREEN"), 2, "GREEN")
                   [] currentPhaseName = "EW_YELLOW" ->
                          SetLight(SetLight(allRed, 3, "YELLOW"), 2, "YELLOW")
                   [] currentPhaseName = "NS_GREEN" ->
                          SetLight(SetLight(allRed, 1, "GREEN"), 0, "GREEN")
                   [] currentPhaseName = "NS_YELLOW" ->
                          SetLight(SetLight(allRed, 1, "YELLOW"), 0, "YELLOW")
                   [] OTHER -> allRed
         IN  [junction EXCEPT !.trafficLights = lights]

(* JUNCTION_CYCLE_DEFINITION.findIndex(p => p.phase === ALL_RED), 0 when   *)
(* there is none                                                           *)
SafePhaseIndex ==
    LET found == {i \in 0 .. (CycleLength - 1) : PhaseAt(i).phase = "ALL_RED"}
    IN  IF found = {} THEN 0
        ELSE CHOOSE i \in found : \A k \in found : i <= k

(* Mutant: priority turns the east-west lights green and leaves the        *)
(* north-south lights as they are                                          *)
ControlTrafficLightsKeepsCrossTraffic(junction, givePriorityToAmbulance) ==
    IF givePriorityToAmbulance
    THEN [junction EXCEPT
            !.isUnderNormalCycle = FALSE,
            !.trafficLights =
                [i \in DOMAIN junction.trafficLights |->
                    IF i \in {2, 3}
                    THEN SetPriority(junction.trafficLights[i], TRUE)
                    ELSE [junction.trafficLights[i] EXCEPT !.isOverridden = TRUE]]]
    ELSE ApplyJunctionPhaseState(
            [junction EXCEPT
                !.trafficLights =
                    [i \in DOMAIN junction.trafficLights |->
                        ReleasePriority(junction.trafficLights[i])],
                !.isUnderNormalCycle = TRUE,
                !.currentPhaseIndex = SafePhaseIndex,
                !.currentPhaseTimer = PhaseAt(SafePhaseIndex).duration])

(* Mutant: the release resumes the paused phase instead of the safe phase *)
ControlTrafficLightsResumesPhase(junction, givePriorityToAmbulance) ==
    IF givePriorityToAmbulance
    THEN [junction EXCEPT
            !.isUnderNormalCycle = FALSE,
            !.trafficLights =
                [i \in DOMAIN junction.trafficLights |->
                    IF i \in {2, 3}
                    THEN SetPriority(junction.trafficLights[i], TRUE)
                    ELSE SetPriority(junction.trafficLights[i], FALSE)]]
    ELSE ApplyJunctionPhaseState(
            [junction EXCEPT
                !.trafficLights =
                    [i \in DOMAIN junction.trafficLights |->
                        ReleasePriority(junction.trafficLights[i])],
                !.isUnderNormalCycle = TRUE])

(* Simulation.controlTrafficLightsForJunction(junctionId, givePriorityToAmbulance) *)
ControlTrafficLightsForJunction(junction, givePriorityToAmbulance) ==
    IF givePriorityToAmbulance
    THEN [junction EXCEPT
            !.isUnderNormalCycle = FALSE,
            !.trafficLights =
                [i \in DOMAIN junction.trafficLights |->
                    IF i \in {2, 3}
                    THEN SetPriority(junction.trafficLights[i], TRUE)
                    ELSE SetPriority(junction.trafficLights[i], FALSE)]]
    ELSE ApplyJunctionPhaseState(
            [junction EXCEPT
                !.trafficLights =
                    [i \in DOMAIN junction.trafficLights |->
                        ReleasePriority(junction.trafficLights[i])],
                !.isUnderNormalCycle = TRUE,
                !.currentPhaseIndex = SafePhaseIndex,
                !.currentPhaseTimer = PhaseAt(SafePhaseIndex).duration])

(* Mutant: the time a tick overshoots a phase by is taken off the next phase *)
CycleJunctionCarriesOvershoot(junction, dt) ==
    IF junction.isUnderNormalCycle /\ Cardinality(DOMAIN junction.trafficLights) > 0
    THEN LET timer == junction.currentPhaseTimer - dt
         IN  IF timer <= 0
             THEN LET next == (junction.currentPhaseIndex + 1) % CycleLength
                  IN  ApplyJunctionPhaseState(
                          [junction EXCEPT !.currentPhaseIndex = next,
                                           !.currentPhaseTimer = PhaseAt(next).duration + timer])
             ELSE [junction EXCEPT !.currentPhaseTimer = timer]
    ELSE junction

(* The body of manageJunctionCycles' forEach for one junction *)
CycleJunction(junction, dt) ==
    IF junction.isUnderNormalCycle /\ Cardinality(DOMAIN junction.trafficLights) > 0
    THEN LET timer == junction.currentPhaseTimer - dt
         IN  IF timer <= 0
             THEN LET next == (junction.currentPhaseIndex + 1) % CycleLength
                  IN  ApplyJunctionPhaseState(
                          [junction EXCEPT !.currentPhaseIndex = next,
                                           !.currentPhaseTimer = PhaseAt(next).duration])
             ELSE [junction EXCEPT !.currentPhaseTimer = timer]
    ELSE junction

(* setupEnvironment: the junctionData of junction i, lights initialised to *)
(* the first phase                                                         *)
NewJunction(i) ==
    ApplyJunctionPhaseState(
        [id |-> i,
         trafficLights |-> [k \in 0 .. 3 |-> NewTrafficLight],
         reflectorChain |-> << >>,
         isAmbulanceApproaching |-> FALSE,
         hasAmbulancePassed |-> FALSE,
         currentPhaseIndex |-> 0,
         currentPhaseTimer |-> PhaseAt(0).duration,
         isUnderNormalCycle |-> TRUE])

----------------------------------------------------------------------------
(* Ambulance.js *)

(* Ambulance constructor: at path[0], model not loaded yet *)
NewAmbulance ==
    [exists |-> TRUE,
     model |-> FALSE,
     currentPathIndex |-> 0,
     position |-> PathAt(0),
     isDeactivating |-> FALSE,
     fadeOutTimer |-> 0,
     hasFadedOut |-> FALSE]

(* Ambulance.deactivate *)
AmbulanceDeactivate(amb) == [amb EXCEPT !.isDeactivating = TRUE]

(* Ambulance.activate *)
AmbulanceActivate(amb) ==
    [amb EXCEPT !.currentPathIndex = 0,
                !.isDeactivating = FALSE,
                !.hasFadedOut = FALSE,
                !.fadeOutTimer = 0,
                !.position = IF PathLength > 0 THEN PathAt(0) ELSE @]

(* Mutant: the step is five times ambulanceSpeed *)
AmbulanceUpdateLongStep(amb, dt) ==
    IF amb.hasFadedOut THEN amb
    ELSE IF amb.isDeactivating
    THEN LET timer == amb.fadeOutTimer + dt
         IN  [amb EXCEPT !.fadeOutTimer = timer,
                         !.hasFadedOut = (timer >= AmbulanceFadeOutDuration)]
    ELSE IF PathLength = 0 \/ amb.currentPathIndex >= PathLength \/ ~amb.model
    THEN amb
    ELSE LET targetPosition == PathAt(amb.currentPathIndex)
             dx == targetPosition.x - amb.position.x
             distanceToTargetSq == dx * dx
         IN  IF 10 * distanceToTargetSq < AmbulanceSpeedQ * AmbulanceSpeedQ
                \/ 100 * distanceToTargetSq < Q * Q
             THEN LET next == [amb EXCEPT !.currentPathIndex = @ + 1]
                  IN  IF next.currentPathIndex >= PathLength
                      THEN AmbulanceDeactivate(next)
                      ELSE next
             ELSE [amb EXCEPT !.position.x = @ + Sign(dx) * 5 * AmbulanceSpeedQ]

(* Mutant: the fade is over in its first tick *)
AmbulanceUpdateFadesAtOnce(amb, dt) ==
    IF amb.hasFadedOut THEN amb
    ELSE IF amb.isDeactivating
    THEN [amb EXCEPT !.fadeOutTimer = amb.fadeOutTimer + dt,
                     !.hasFadedOut = TRUE]
    ELSE IF PathLength = 0 \/ amb.currentPathIndex >= PathLength \/ ~amb.model
    THEN amb
    ELSE LET targetPosition == PathAt(amb.currentPathIndex)
             dx == targetPosition.x - amb.position.x
             distanceToTargetSq == dx * dx
         IN  IF 10 * distanceToTargetSq < AmbulanceSpeedQ * AmbulanceSpeedQ
                \/ 100 * distanceToTargetSq < Q * Q
             THEN LET next == [amb EXCEPT !.currentPathIndex = @ + 1]
                  IN  IF next.currentPathIndex >= PathLength
                      THEN AmbulanceDeactivate(next)
                      ELSE next
             ELSE [amb EXCEPT !.position.x = @ + Sign(dx) * AmbulanceSpeedQ]

(* Ambulance.update(deltaTime).  Every path point has the y and z of       *)
(* path[0], where the ambulance starts, so directionToTarget is along x    *)
(* and the normalised step is AmbulanceSpeedQ in the sign of dx.           *)
AmbulanceUpdate(amb, dt) ==
    IF amb.hasFadedOut THEN amb
    ELSE IF amb.isDeactivating
    THEN LET timer == amb.fadeOutTimer + dt
         IN  [amb EXCEPT !.fadeOutTimer = timer,
                         !.hasFadedOut = (timer >= AmbulanceFadeOutDuration)]
    ELSE IF PathLength = 0 \/ amb.currentPathIndex >= PathLength \/ ~amb.model
    THEN amb
    ELSE LET targetPosition == PathAt(amb.currentPathIndex)
             dx == targetPosition.x - amb.position.x
             distanceToTargetSq == dx * dx
         IN  IF 10 * distanceToTargetSq < AmbulanceSpeedQ * AmbulanceSpeedQ
                \/ 100 * distanceToTargetSq < Q * Q
             THEN LET next == [amb EXCEPT !.currentPathIndex = @ + 1]
                  IN  IF next.currentPathIndex >= PathLength
                      THEN AmbulanceDeactivate(next)
                      ELSE next
             ELSE [amb EXCEPT !.position.x = @ + Sign(dx) * AmbulanceSpeedQ]

----------------------------------------------------------------------------
(* main.js: updateAmbulanceLogic *)

Status(text, j) == [text |-> text, junction |-> j]

(* ambulanceMovingTowardsJunction, lines 328-338 *)
MovingTowardsJunction(amb, center) ==
    LET ax == amb.position.x
        currentAmbulanceTargetX == PathAt(amb.currentPathIndex).x
    IN  \/ /\ PathLength > amb.currentPathIndex
           /\ \/ (currentAmbulanceTargetX - center.x) * (ax - center.x) <= 0
              \/ /\ Sign(currentAmbulanceTargetX - ax) = Sign(center.x - ax)
                 /\ Abs(center.x - ax) < Abs(currentAmbulanceTargetX - ax)
        \/ DistanceLess(amb.position, center, (JunctionSize * 3) \div 2)

(* ambulanceDirectionX, lines 394-397 *)
AmbulanceDirectionX(amb) ==
    IF PathLength > 1 /\ amb.currentPathIndex < PathLength - 1
    THEN Sign(PathAt(amb.currentPathIndex + 1).x - amb.position.x)
    ELSE IF PathLength > 0 /\ amb.currentPathIndex < PathLength
         THEN Sign(PathAt(amb.currentPathIndex).x - amb.position.x)
         ELSE 0

PassedJunctionThresholdQ == (JunctionSize * Q) \div 2 + RoadWidth * Q

(* Mutant: the position is compared with the centre, not the threshold *)
HasPassedJunctionCentre(amb, center) ==
    LET d == AmbulanceDirectionX(amb)
    IN  IF d > 0 THEN amb.position.x > center.x
        ELSE IF d < 0 THEN amb.position.x < center.x
        ELSE FALSE

(* hasPhysicallyPassedJunction, lines 401-406 *)
HasPhysicallyPassedJunction(amb, center) ==
    LET d == AmbulanceDirectionX(amb)
    IN  IF d > 0 THEN amb.position.x > center.x + PassedJunctionThresholdQ
        ELSE IF d < 0 THEN amb.position.x < center.x - PassedJunctionThresholdQ
        ELSE FALSE

(* Mutant: the path target never counts as past the junction *)
TargetNeverPastJunction(amb, center) == FALSE

(* targetIsPastJunction, lines 409-417 (path[currentPathIndex] exists) *)
TargetIsPastJunction(amb, center) ==
    LET d == AmbulanceDirectionX(amb)
        currentTargetPathPoint == PathAt(amb.currentPathIndex)
    IN  \/ d > 0 /\ currentTargetPathPoint.x > center.x + PassedJunctionThresholdQ
        \/ d < 0 /\ currentTargetPathPoint.x < center.x - PassedJunctionThresholdQ
        \/ amb.currentPathIndex = PathLength - 1

(* Mutant: the scan does not skip the reflectors already in the chain *)
InChainIgnored(chain, k) == FALSE

(* junction.reflectorChain.includes(reflector) *)
InChain(chain, k) == \E n \in 1 .. Len(chain) : chain[n] = k

(* The reflector the scan of lines 357-390 stops at: the first one in list *)
(* order, from k on, that is not in the chain and detects the ambulance or *)
(* is near the last chained reflector; -1 when the loop ends without one.  *)
RECURSIVE FirstTriggeredReflector(_, _, _, _)
FirstTriggeredReflector(j, chain, ambulancePos, k) ==
    IF k >= NumReflectors THEN -1
    ELSE IF InChain(chain, k)
    THEN FirstTriggeredReflector(j, chain, ambulancePos, k + 1)
    ELSE IF \/ CanDetectAmbulance(j, k, ambulancePos)
            \/ /\ Len(chain) > 0
               /\ IsAmbulanceNear(j, k, GetReflectorPosition(j, chain[Len(chain)]))
    THEN k
    ELSE FirstTriggeredReflector(j, chain, ambulancePos, k + 1)

(* Preemption by radius, lines 342-353 *)
ProximityStep(js, amb, moving) ==
    LET junction == js.junction
        center == GetJunctionCenter(junction.id)
    IN  IF /\ ~junction.isAmbulanceApproaching
           /\ moving
           /\ DistanceLess(amb.position, center, AmbulancePreemptionRadius)
        THEN [junction |->
                 [ControlTrafficLightsForJunction(junction, TRUE) EXCEPT
                     !.isAmbulanceApproaching = TRUE,
                     !.isUnderNormalCycle = FALSE],
              statusText |->
                 IF Len(junction.reflectorChain) > 0
                 THEN Status("Preempting (Zone & Reflectors Active)", junction.id)
                 ELSE Status("Preempting (Zone)", junction.id)]
        ELSE js

(* Mutant: a sensor that confirms a preemption by radius leaves the status *)
(* text as it is                                                           *)
ReflectorStepKeepsStatus(js, amb, moving) ==
    LET junction == js.junction
        k == FirstTriggeredReflector(junction.id, junction.reflectorChain,
                                     amb.position, 0)
    IN  IF NumReflectors > 0 /\ moving /\ k >= 0
        THEN LET chained == [junction EXCEPT !.reflectorChain = Append(@, k)]
             IN  IF ~chained.isAmbulanceApproaching
                 THEN [junction |->
                          [ControlTrafficLightsForJunction(chained, TRUE) EXCEPT
                              !.isAmbulanceApproaching = TRUE,
                              !.isUnderNormalCycle = FALSE],
                       statusText |->
                          Status("Preempting (Reflectors Active)", junction.id)]
                 ELSE [junction |-> chained, statusText |-> js.statusText]
        ELSE js

(* Reflector activation, lines 356-391 *)
ReflectorStep(js, amb, moving) ==
    LET junction == js.junction
        k == FirstTriggeredReflector(junction.id, junction.reflectorChain,
                                     amb.position, 0)
    IN  IF NumReflectors > 0 /\ moving /\ k >= 0
        THEN LET chained == [junction EXCEPT !.reflectorChain = Append(@, k)]
             IN  IF ~chained.isAmbulanceApproaching
                 THEN [junction |->
                          [ControlTrafficLightsForJunction(chained, TRUE) EXCEPT
                              !.isAmbulanceApproaching = TRUE,
                              !.isUnderNormalCycle = FALSE],
                       statusText |->
                          Status("Preempting (Reflectors Active)", junction.id)]
                 ELSE [junction |-> chained,
                       statusText |->
                          IF js.statusText = Status("Preempting (Zone)", junction.id)
                          THEN Status("Preempting (Zone & Reflectors Active)", junction.id)
                          ELSE js.statusText]
        ELSE js

(* Mutant: the release leaves the reflector chain as it is *)
ReleaseStepKeepsChain(js, amb) ==
    LET junction == js.junction
        center == GetJunctionCenter(junction.id)
    IN  IF /\ junction.isAmbulanceApproaching
           /\ HasPhysicallyPassedJunction(amb, center)
           /\ TargetIsPastJunction(amb, center)
        THEN [junction |->
                 [ControlTrafficLightsForJunction(junction, FALSE) EXCEPT
                     !.isAmbulanceApproaching = FALSE,
                     !.hasAmbulancePassed = TRUE,
                     !.isUnderNormalCycle = TRUE],
              statusText |-> Status("Passed", junction.id)]
        ELSE js

(* Release once the ambulance has passed, lines 399-429 *)
ReleaseStep(js, amb) ==
    LET junction == js.junction
        center == GetJunctionCenter(junction.id)
    IN  IF /\ junction.isAmbulanceApproaching
           /\ HasPhysicallyPassedJunction(amb, center)
           /\ TargetIsPastJunction(amb, center)
        THEN [junction |->
                 [ControlTrafficLightsForJunction(junction, FALSE) EXCEPT
                     !.isAmbulanceApproaching = FALSE,
                     !.hasAmbulancePassed = TRUE,
                     !.reflectorChain = << >>,
                     !.isUnderNormalCycle = TRUE],
              statusText |-> Status("Passed", junction.id)]
        ELSE js

(* Mutant: a junction the ambulance has passed is not skipped *)
UpdateJunctionAfterPassed(junction, amb, status) ==
    LET moving == MovingTowardsJunction(amb, GetJunctionCenter(junction.id))
    IN  ReleaseStep(
            ReflectorStep(
                ProximityStep([junction |-> junction, statusText |-> status],
                              amb, moving),
                amb, moving),
            amb)

(* The body of updateAmbulanceLogic's forEach for one junction, lines 323-430 *)
UpdateJunction(junction, amb, status) ==
    IF junction.hasAmbulancePassed
    THEN [junction |-> junction, statusText |-> status]
    ELSE LET moving == MovingTowardsJunction(amb, GetJunctionCenter(junction.id))
         IN  ReleaseStep(
                 ReflectorStep(
                     ProximityStep([junction |-> junction, statusText |-> status],
                                   amb, moving),
                     amb, moving),
                 amb)

(* this.junctions.forEach from junction i on: the junctions and the status *)
(* text when the loop ends                                                 *)
RECURSIVE ForEachJunction(_, _, _, _)
ForEachJunction(i, js, amb, status) ==
    IF i >= NumJunctions THEN [junctions |-> js, statusText |-> status]
    ELSE LET r == UpdateJunction(js[i], amb, status)
         IN  ForEachJunction(i + 1, [js EXCEPT ![i] = r.junction], amb, r.statusText)

(* History only: the junction made the NORMAL->PREEMPTED transition in    *)
(* the forEach body that took it from before to after (a junction released *)
(* in the body was PREEMPTED in it).                                       *)
EntersPreempted(before, after) ==
    /\ ~before.isAmbulanceApproaching
    /\ \/ after.isAmbulanceApproaching
       \/ after.hasAmbulancePassed /\ ~before.hasAmbulancePassed

(* The early returns of updateAmbulanceLogic, lines 317-318 *)
AmbulanceLogicRuns(amb) ==
    /\ amb.exists
    /\ amb.model
    /\ PathLength > 0
    /\ amb.currentPathIndex < PathLength

----------------------------------------------------------------------------
(* ProceduralCar.js and the car part of main.js                            *)
(*                                                                         *)
(* A car's x is kept in 1/1000 units (Milli per world unit) and its speed  *)
(* in 1/2000 units per update (SpeedUnit), so that a speed that is a       *)
(* multiple of 0.01, its creep fractions 0.3 and 0.25 and the frame steps  *)
(* speed * deltaTime * 60 are whole numbers.  Its z is in 1/400 units like *)
(* the ambulance's.                                                        *)

Milli == 1000
SpeedUnit == 2000

(* Config.js *)
MinCarSpeed == 120
MaxCarSpeed == 360
LaneWidthFine == 1400
CarEvadeDistance == 25
CarEvadeShiftZFine == 1000
CarStopDistanceToJunction == 8
CarDetectionDistanceToJunction == 25

(* ProceduralCar constructor defaults: length 2.8, width 1.3 *)
CarLengthMilli == 2800
CarWidthFine == 520

(* The quotient rounded towards zero *)
TruncDiv(a, b) == Sign(a) * (Abs(a) \div b)

(* An x of the road or of the ambulance (quarter units) in car units *)
ToMilli(xq) == xq * (Milli \div Q)

(* setupEnvironment, lines 219-237: a car at x, on the side laneRelDir of  *)
(* the centre line, travelling in travelDir with the given speed           *)
NewCar(x, laneRelDir, travelDir, speed) ==
    [x |-> x,
     z |-> (LaneWidthFine \div 2) * laneRelDir,
     initialZ |-> (LaneWidthFine \div 2) * laneRelDir,
     targetZ |-> (LaneWidthFine \div 2) * laneRelDir,
     speed |-> speed * travelDir,
     currentSpeed |-> speed * travelDir,
     isEvading |-> FALSE,
     isStoppedForLight |-> FALSE]

NoCars == << >>

(* ProceduralCar.update, line 114: roadExtentX *)
CarRoadExtentX ==
    ((NumJunctions * JunctionSize + (NumJunctions + 1) * RoadLength) * Milli) \div 2
        + CarLengthMilli * 2

(* THREE.MathUtils.damp(x, y, lambda, dt) is lerp(x, y, 1 - exp(-lambda    *)
(* dt)); the factor in thousandths, from exp's series to the third order   *)
(* (221 for 50 ms, 95 for 20 ms), with lambda = 5.                         *)
DampFactor(dt) ==
    LET u == 5 * dt
    IN  u - (u * u) \div 2000 + (u * u * u) \div 6000000

Damp(z, targetZ, dt) == z + TruncDiv((targetZ - z) * DampFactor(dt), 1000)

(* ProceduralCar.update(deltaTime) *)
CarUpdate(car, dt) ==
    LET moved ==
            IF ~car.isStoppedForLight \/ car.isEvading
            THEN car.x + TruncDiv(car.currentSpeed * dt * 60 * Milli,
                                  SpeedUnit * 1000)
            ELSE car.x
        x == IF car.currentSpeed > 0 /\ moved > CarRoadExtentX
             THEN 0 - CarRoadExtentX
             ELSE IF car.currentSpeed < 0 /\ moved < 0 - CarRoadExtentX
             THEN CarRoadExtentX
             ELSE moved
        (* 0.01 is 4 in 1/400 units *)
        far == 100 * Abs(car.z - car.targetZ) > Q * Fine
        z == IF far THEN Damp(car.z, car.targetZ, dt) ELSE car.targetZ
        targetZ == IF ~far /\ ~car.isEvading /\ z # car.initialZ
                   THEN car.initialZ ELSE car.targetZ
        restored ==
            IF ~car.isStoppedForLight /\ ~car.isEvading
               /\ Abs(car.currentSpeed) < Abs(car.speed)
            THEN car.speed ELSE car.currentSpeed
        currentSpeed ==
            IF car.isStoppedForLight /\ ~car.isEvading THEN 0 ELSE restored
    IN  [car EXCEPT !.x = x, !.z = z, !.targetZ = targetZ,
                    !.currentSpeed = currentSpeed]

(* Mutant: an evading car is stopped for the light like any other *)
CheckAndHandleTrafficLightStopsEvading(car, junctionData, trafficLight, ambulanceIsVeryCloseAndNeedsWay) ==
    LET carDirectionSign == Sign(car.speed)
        distToJunctionCenterX ==
            (ToMilli(GetJunctionCenter(junctionData.id).x) - car.x)
                * carDirectionSign
        lightState == trafficLight.currentState
        effectiveStopDist ==
            CarStopDistanceToJunction * Milli + CarLengthMilli \div 2
        redOrYellow == lightState \in {"RED", "YELLOW"}
    IN  IF /\ ambulanceIsVeryCloseAndNeedsWay
           /\ (car.isStoppedForLight \/ car.currentSpeed < Abs(car.speed))
           /\ car.isEvading
        THEN [car EXCEPT !.isStoppedForLight = FALSE,
                         !.currentSpeed = TruncDiv(car.speed * 3, 10)]
        ELSE IF /\ distToJunctionCenterX > 0
                /\ distToJunctionCenterX < CarDetectionDistanceToJunction * Milli
        THEN IF /\ redOrYellow
                /\ distToJunctionCenterX < effectiveStopDist
                /\ distToJunctionCenterX > 0 - CarLengthMilli
             THEN [car EXCEPT !.isStoppedForLight = TRUE,
                              !.currentSpeed = 0]
             ELSE IF lightState = "GREEN" \/ (car.isStoppedForLight /\ ~redOrYellow)
             THEN [car EXCEPT !.isStoppedForLight = FALSE,
                              !.currentSpeed =
                                  IF ~car.isEvading THEN car.speed ELSE @]
             ELSE car
        ELSE IF distToJunctionCenterX <= 0
        THEN [car EXCEPT !.isStoppedForLight = FALSE]
        ELSE car

(* ProceduralCar.checkAndHandleTrafficLight, for a junction and a light    *)
(* that exist                                                              *)
CheckAndHandleTrafficLight(car, junctionData, trafficLight, ambulanceIsVeryCloseAndNeedsWay) ==
    LET carDirectionSign == Sign(car.speed)
        distToJunctionCenterX ==
            (ToMilli(GetJunctionCenter(junctionData.id).x) - car.x)
                * carDirectionSign
        lightState == trafficLight.currentState
        effectiveStopDist ==
            CarStopDistanceToJunction * Milli + CarLengthMilli \div 2
        redOrYellow == lightState \in {"RED", "YELLOW"}
    IN  IF /\ ambulanceIsVeryCloseAndNeedsWay
           /\ (car.isStoppedForLight \/ car.currentSpeed < Abs(car.speed))
           /\ car.isEvading
        THEN [car EXCEPT !.isStoppedForLight = FALSE,
                         !.currentSpeed = TruncDiv(car.speed * 3, 10)]
        ELSE IF /\ distToJunctionCenterX > 0
                /\ distToJunctionCenterX < CarDetectionDistanceToJunction * Milli
        THEN IF /\ redOrYellow
                /\ distToJunctionCenterX < effectiveStopDist
                /\ distToJunctionCenterX > 0 - CarLengthMilli
             THEN IF ~car.isEvading
                  THEN [car EXCEPT !.isStoppedForLight = TRUE,
                                   !.currentSpeed = 0]
                  ELSE car
             ELSE IF lightState = "GREEN" \/ (car.isStoppedForLight /\ ~redOrYellow)
             THEN [car EXCEPT !.isStoppedForLight = FALSE,
                              !.currentSpeed =
                                  IF ~car.isEvading THEN car.speed ELSE @]
             ELSE car
        ELSE IF distToJunctionCenterX <= 0
        THEN [car EXCEPT !.isStoppedForLight = FALSE]
        ELSE car

(* Mutant: the evasion shift is not applied *)
StartEvadeWithoutShift(car, ambulanceTargetLaneZ) ==
    IF car.isEvading /\ car.targetZ # car.initialZ THEN car
    ELSE IF Abs(car.z - ambulanceTargetLaneZ) * 10 < LaneWidthFine * 8
    THEN [car EXCEPT !.isEvading = TRUE, !.targetZ = car.initialZ]
    ELSE [car EXCEPT !.isEvading = FALSE, !.targetZ = car.initialZ]

(* ProceduralCar.startEvade(ambulanceTargetLaneZ) *)
StartEvade(car, ambulanceTargetLaneZ) ==
    LET carOriginalLaneZ == car.initialZ
        (* 0.2 is 80 in 1/400 units *)
        roadEdgePositive ==
            (RoadWidth * Q * Fine) \div 2 - CarWidthFine \div 2 - (Q * Fine) \div 5
        roadEdgeNegative ==
            0 - (RoadWidth * Q * Fine) \div 2 + CarWidthFine \div 2 + (Q * Fine) \div 5
        right == carOriginalLaneZ + CarEvadeShiftZFine
        left == carOriginalLaneZ - CarEvadeShiftZFine
    IN  IF car.isEvading /\ car.targetZ # car.initialZ THEN car
        ELSE IF Abs(car.z - ambulanceTargetLaneZ) * 10 < LaneWidthFine * 8
        THEN IF ambulanceTargetLaneZ <= carOriginalLaneZ
             THEN [car EXCEPT !.isEvading = TRUE,
                              !.targetZ = IF right > roadEdgePositive
                                          THEN roadEdgePositive ELSE right]
             ELSE [car EXCEPT !.isEvading = TRUE,
                              !.targetZ = IF left < roadEdgeNegative
                                          THEN roadEdgeNegative ELSE left]
        ELSE [car EXCEPT !.isEvading = FALSE, !.targetZ = car.initialZ]

(* Mutant: the target offset is not put back *)
StopEvadeKeepsTarget(car) ==
    IF ~car.isEvading /\ 10 * Abs(car.z - car.initialZ) < Q * Fine
    THEN car
    ELSE [car EXCEPT !.isEvading = FALSE]

(* ProceduralCar.stopEvade; 0.1 is 40 in 1/400 units *)
StopEvade(car) ==
    IF ~car.isEvading /\ 10 * Abs(car.z - car.initialZ) < Q * Fine
    THEN car
    ELSE [car EXCEPT !.isEvading = FALSE, !.targetZ = car.initialZ]

(* updateCarLogic, line 531: ambulanceActive *)
AmbulanceActive(amb) ==
    /\ amb.exists
    /\ amb.model
    /\ PathLength > 0
    /\ amb.currentPathIndex < PathLength
    /\ ~amb.isDeactivating
    /\ ~amb.hasFadedOut

(* updateCarLogic, lines 533-541: the z of the ambulance's path target *)
AmbulanceLaneZ(amb) ==
    IF AmbulanceActive(amb) THEN PathAt(amb.currentPathIndex).z
    ELSE AmbulanceLaneOffsetZFine

(* updateCarLogic, lines 548-563: the first junction, in the order of the  *)
(* list from i on, that is at most a car length behind the car and less    *)
(* than the detection distance plus 5 ahead; -1 when there is none or when *)
(* that junction has fewer than four lights                                *)
RECURSIVE RelevantJunction(_, _, _)
RelevantJunction(car, js, i) ==
    IF i >= NumJunctions THEN -1
    ELSE LET distToJunctionX ==
                 (ToMilli(GetJunctionCenter(i).x) - car.x) * Sign(car.speed)
         IN  IF /\ distToJunctionX > 0 - CarLengthMilli
                /\ distToJunctionX < (CarDetectionDistanceToJunction + 5) * Milli
             THEN IF Cardinality(DOMAIN js[i].trafficLights) >= 4 THEN i ELSE -1
             ELSE RelevantJunction(car, js, i + 1)

(* Mutant: the car reads the lights of the cross street *)
RelevantTrafficLightCrossStreet(car, junctionData) ==
    IF Sign(car.speed) > 0 THEN junctionData.trafficLights[1]
    ELSE junctionData.trafficLights[0]

(* updateCarLogic, line 554: TL3 for eastbound, TL2 for westbound *)
RelevantTrafficLight(car, junctionData) ==
    IF Sign(car.speed) > 0 THEN junctionData.trafficLights[3]
    ELSE junctionData.trafficLights[2]

(* updateCarLogic, lines 566-574: ambulanceIsVeryCloseAndNeedsWay *)
AmbulanceIsVeryClose(car, amb) ==
    /\ AmbulanceActive(amb)
    /\ LET dX == car.x - ToMilli(amb.position.x)
           dZ == Abs(car.z - amb.position.z)
       IN  /\ 2 * dX > 0 - CarEvadeDistance * Milli
           /\ dX < CarLengthMilli * 2
           /\ 2 * dZ < LaneWidthFine * 3

(* updateCarLogic, lines 586-590: the car is ahead of or overlapping the   *)
(* ambulance and within the evasion distance of it along x                 *)
InEvasionWindow(car, amb) ==
    LET dX == car.x - ToMilli(amb.position.x)
        carIsGenerallyAheadOrOverlap ==
            \/ car.speed > 0 /\ 2 * dX > 0 - CarLengthMilli * 3
            \/ car.speed < 0 /\ 2 * dX < CarLengthMilli * 3
        inProximityXForEvasion == Abs(dX) < CarEvadeDistance * Milli
    IN  carIsGenerallyAheadOrOverlap /\ inProximityXForEvasion

(* Mutant: the speed is restored whether or not the car is stopped *)
EvasionStepRestoresStopped(car, amb, ambulanceIsVeryCloseAndNeedsWay) ==
    IF AmbulanceActive(amb)
    THEN IF InEvasionWindow(car, amb)
         THEN LET started == IF ~car.isEvading
                             THEN StartEvade(car, AmbulanceLaneZ(amb)) ELSE car
              IN  IF /\ started.isEvading
                     /\ started.isStoppedForLight
                     /\ ambulanceIsVeryCloseAndNeedsWay
                  THEN [started EXCEPT !.isStoppedForLight = FALSE,
                                       !.currentSpeed = TruncDiv(car.speed, 4)]
                  ELSE started
         ELSE IF car.isEvading THEN StopEvade(car) ELSE car
    ELSE LET stopped == IF car.isEvading THEN StopEvade(car) ELSE car
         IN  IF Abs(stopped.currentSpeed) < Abs(stopped.speed)
             THEN [stopped EXCEPT !.currentSpeed = stopped.speed]
             ELSE stopped

(* updateCarLogic, lines 585-605: the evasion part, after car.update *)
EvasionStep(car, amb, ambulanceIsVeryCloseAndNeedsWay) ==
    IF AmbulanceActive(amb)
    THEN IF InEvasionWindow(car, amb)
         THEN LET started == IF ~car.isEvading
                             THEN StartEvade(car, AmbulanceLaneZ(amb)) ELSE car
              IN  IF /\ started.isEvading
                     /\ started.isStoppedForLight
                     /\ ambulanceIsVeryCloseAndNeedsWay
                  THEN [started EXCEPT !.isStoppedForLight = FALSE,
                                       !.currentSpeed = TruncDiv(car.speed, 4)]
                  ELSE started
         ELSE IF car.isEvading THEN StopEvade(car) ELSE car
    ELSE LET stopped == IF car.isEvading THEN StopEvade(car) ELSE car
         IN  IF /\ ~stopped.isStoppedForLight
                /\ Abs(stopped.currentSpeed) < Abs(stopped.speed)
             THEN [stopped EXCEPT !.currentSpeed = stopped.speed]
             ELSE stopped

(* updateCarLogic: the body of the forEach, for one car *)
UpdateCar(car, dt, amb, js) ==
    LET j == RelevantJunction(car, js, 0)
        ambulanceIsVeryCloseAndNeedsWay == AmbulanceIsVeryClose(car, amb)
        handled ==
            IF j # -1
            THEN CheckAndHandleTrafficLight(car, js[j],
                                            RelevantTrafficLight(car, js[j]),
                                            ambulanceIsVeryCloseAndNeedsWay)
            ELSE [car EXCEPT !.isStoppedForLight = FALSE]
        updated == CarUpdate(handled, dt)
    IN  EvasionStep(updated, amb, ambulanceIsVeryCloseAndNeedsWay)

(* main.js: updateCarLogic(deltaTime, ambulance) *)
UpdateCarLogic(cs, dt, amb, js) ==
    [n \in DOMAIN cs |-> UpdateCar(cs[n], dt, amb, js)]

----------------------------------------------------------------------------
(* State machine *)

Init ==
    /\ pc = "frame"
    /\ frame = 0
    /\ deltaTime = 0
    /\ shortFrames = 0
    /\ activationPending = TRUE
    /\ ambulance = NewAmbulance
    /\ junctions = [i \in JunctionIds |-> NewJunction(i)]
    /\ statusText = Status("", -1)
    /\ preemptions = [i \in JunctionIds |-> 0]
    /\ cars = NoCars

(* loadAndCreateModel resolves (with the model or with the placeholder) *)
LoadModel ==
    /\ pc = "frame"
    /\ ambulance.exists
    /\ ~ambulance.model
    /\ frame <= MaxLoadFrame
    /\ ambulance' = [ambulance EXCEPT !.model = TRUE]
    /\ UNCHANGED <<pc, frame, deltaTime, shortFrames, activationPending,
                   junctions, statusText, preemptions, cars>>

(* The setTimeout callback of setupAmbulance, line 313 *)
Activate ==
    /\ pc = "frame"
    /\ activationPending
    /\ frame <= MaxActivateFrame
    /\ frame % ActivateStride = 0
    /\ activationPending' = FALSE
    /\ IF ambulance.exists
       THEN /\ ambulance' = AmbulanceActivate(ambulance)
            /\ statusText' = Status("Approaching", -1)
       ELSE UNCHANGED <<ambulance, statusText>>
    /\ UNCHANGED <<pc, frame, deltaTime, shortFrames, junctions, preemptions,
                   cars>>

(* animate, lines 657-674 up to the call of updateAmbulanceLogic: the      *)
(* frame's deltaTime, ambulance.update and the removal of a faded ambulance *)
AnimateAmbulance(dt) ==
    /\ pc = "frame"
    /\ deltaTime' = dt
    /\ IF ambulance.exists
       THEN LET updated == AmbulanceUpdate(ambulance, dt)
            IN  IF updated.hasFadedOut
                THEN /\ ambulance' = [updated EXCEPT !.exists = FALSE]
                     /\ statusText' = Status("Departed", -1)
                     /\ pc' = "cycles"
                ELSE /\ ambulance' = updated
                     /\ statusText' =
                            IF updated.isDeactivating /\ ~ambulance.isDeactivating
                            THEN Status("Reached Destination / Fading", -1)
                            ELSE statusText
                     /\ pc' = "logic"
       ELSE /\ pc' = "cycles"
            /\ UNCHANGED <<ambulance, statusText>>
    /\ UNCHANGED <<frame, activationPending, junctions, preemptions, cars>>

FullFrame ==
    /\ AnimateAmbulance(MaxDeltaTime)
    /\ UNCHANGED shortFrames

ShortFrame ==
    /\ shortFrames < MaxShortFrames
    /\ AnimateAmbulance(ShortDeltaTime)
    /\ shortFrames' = shortFrames + 1

(* animate, line 672: updateAmbulanceLogic *)
UpdateAmbulanceLogic ==
    /\ pc = "logic"
    /\ pc' = "cycles"
    /\ IF AmbulanceLogicRuns(ambulance)
       THEN LET r == ForEachJunction(0, junctions, ambulance, statusText)
            IN  /\ junctions' = r.junctions
                /\ statusText' = r.statusText
                /\ preemptions' =
                       [i \in JunctionIds |->
                           IF EntersPreempted(junctions[i], r.junctions[i])
                           THEN preemptions[i] + 1 ELSE preemptions[i]]
       ELSE UNCHANGED <<junctions, statusText, preemptions>>
    /\ UNCHANGED <<frame, deltaTime, shortFrames, activationPending, ambulance,
                   cars>>

(* animate, lines 676-677: manageJunctionCycles(deltaTime), then            *)
(* updateCarLogic(deltaTime, this.ambulance) on the junctions it leaves    *)
ManageJunctionCycles ==
    /\ pc = "cycles"
    /\ pc' = "frame"
    /\ junctions' = [i \in JunctionIds |-> CycleJunction(junctions[i], deltaTime)]
    /\ cars' = UpdateCarLogic(cars, deltaTime, ambulance, junctions')
    /\ frame' = IF frame <= MaxActivateFrame THEN frame + 1 ELSE frame
    /\ UNCHANGED <<deltaTime, shortFrames, activationPending, ambulance,
                   statusText, preemptions>>

Next ==
    \/ LoadModel
    \/ Activate
    \/ FullFrame
    \/ ShortFrame
    \/ UpdateAmbulanceLogic
    \/ ManageJunctionCycles

Spec == Init /\ [][Next]_vars

----------------------------------------------------------------------------
(* Properties *)

TickBoundary == pc = "frame"

Preempted(junction) == junction.isAmbulanceApproaching

OverrideColours(junction) ==
    /\ junction.trafficLights[3].currentState = "GREEN"
    /\ junction.trafficLights[2].currentState = "GREEN"
    /\ junction.trafficLights[1].currentState = "RED"
    /\ junction.trafficLights[0].currentState = "RED"

(* The step takes junction i from NORMAL to PREEMPTED *)
Preempts(i) == ~Preempted(junctions[i]) /\ Preempted(junctions[i])'

(* The step takes junction i from PREEMPTED to NORMAL *)
Releases(i) == Preempted(junctions[i]) /\ ~Preempted(junctions[i])'

(* C1: at every tick boundary, for every junction, isUnderNormalCycle is   *)
(* the negation of isAmbulanceApproaching, and each of its four lights is  *)
(* overridden exactly when the junction is PREEMPTED.                      *)
C1_ModeConsistent ==
    TickBoundary =>
        \A i \in JunctionIds :
            /\ junctions[i].isUnderNormalCycle = ~junctions[i].isAmbulanceApproaching
            /\ \A k \in 0 .. 3 :
                   junctions[i].trafficLights[k].isOverridden
                       = junctions[i].isAmbulanceApproaching

C1_Witness ==
    /\ TickBoundary
    /\ junctions[0].hasAmbulancePassed
    /\ ~junctions[0].trafficLights[3].isOverridden
    /\ junctions[1].isAmbulanceApproaching
    /\ junctions[1].trafficLights[0].isOverridden
    /\ Len(junctions[1].reflectorChain) > 0
    /\ junctions[2].isUnderNormalCycle

(* C2: the NORMAL->PREEMPTED transition leaves lights 3 and 2 GREEN and    *)
(* lights 1 and 0 RED, all four overridden, whatever the phase; at every   *)
(* tick boundary a PREEMPTED junction shows exactly these colours; and the *)
(* preempt transition applied to a PREEMPTED junction changes nothing.     *)
C2_PreemptColours ==
    /\ [](TickBoundary =>
            \A i \in JunctionIds :
                Preempted(junctions[i]) =>
                    /\ OverrideColours(junctions[i])
                    /\ ControlTrafficLightsForJunction(junctions[i], TRUE) = junctions[i])
    /\ [][\A i \in JunctionIds :
            Preempts(i) =>
                /\ OverrideColours(junctions[i])'
                /\ \A k \in 0 .. 3 : junctions[i].trafficLights[k].isOverridden']_vars

(* A junction preempted while its frozen cycle is on NS_GREEN *)
C2_Witness ==
    /\ TickBoundary
    /\ \E i \in JunctionIds :
          /\ Preempted(junctions[i])
          /\ PhaseAt(junctions[i].currentPhaseIndex).phase = "NS_GREEN"
          /\ OverrideColours(junctions[i])

(* C3: a step releases a junction only if the ambulance's x and the x of  *)
(* its current path target are both strictly beyond the junction centre by *)
(* more than junctionSize/2 + roadWidth, in the ambulance's direction of   *)
(* travel (towards its current target).                                    *)
C3_ReleaseOnlyPastThreshold ==
    [][\A i \in JunctionIds :
          Releases(i) =>
              LET c == GetJunctionCenter(i).x
                  x == ambulance.position.x
                  target == PathAt(ambulance.currentPathIndex).x
                  d == Sign(target - x)
              IN  /\ d # 0
                  /\ d * (x - c) > PassedJunctionThresholdQ
                  /\ d * (target - c) > PassedJunctionThresholdQ]_vars

(* Junction 1 is still PREEMPTED with the ambulance beyond its centre but  *)
(* not beyond the threshold, heading for the waypoint beyond the threshold *)
C3_Witness ==
    /\ pc = "cycles"
    /\ Preempted(junctions[1])
    /\ ambulance.position.x = GetJunctionCenter(1).x + PassedJunctionThresholdQ
    /\ PathAt(ambulance.currentPathIndex).x
           > GetJunctionCenter(1).x + PassedJunctionThresholdQ
    /\ junctions[0].hasAmbulancePassed

(* C4: right after the step that releases a junction, its four lights are  *)
(* not overridden and RED, its cycle is on an ALL_RED phase with the full  *)
(* duration of that phase on the timer, its reflector chain is empty,      *)
(* isAmbulanceApproaching is false and hasAmbulancePassed is true.         *)
C4_ReleaseState ==
    [][\A i \in JunctionIds :
          Releases(i) =>
              LET after == junctions[i]'
              IN  /\ \A k \in 0 .. 3 :
                         /\ ~after.trafficLights[k].isOverridden
                         /\ after.trafficLights[k].currentState = "RED"
                  /\ PhaseAt(after.currentPhaseIndex).phase = "ALL_RED"
                  /\ after.currentPhaseTimer = PhaseAt(after.currentPhaseIndex).duration
                  /\ after.reflectorChain = << >>
                  /\ ~after.isAmbulanceApproaching
                  /\ after.hasAmbulancePassed
                  /\ after.isUnderNormalCycle]_vars

(* The state right after junction 0's release, which froze on NS_GREEN *)
C4_Witness ==
    /\ pc = "cycles"
    /\ statusText = Status("Passed", 0)
    /\ ambulance.position.x = GetJunctionCenter(0).x + PassedJunctionThresholdQ + 1
    /\ junctions[0].hasAmbulancePassed
    /\ junctions[0].currentPhaseIndex = 2
    /\ junctions[0].currentPhaseTimer = 1000
    /\ \A k \in 0 .. 3 : junctions[0].trafficLights[k].currentState = "RED"

(* C5: after every run of updateAmbulanceLogic, a junction that has not    *)
(* been passed, lies ahead of the ambulance along +x and is closer than    *)
(* preemptionRadius is PREEMPTED, with lights 3 and 2 GREEN and 1 and 0    *)
(* RED (the transition is not later than the first tick inside the radius) *)
C5_PreemptedInsideRadius ==
    (pc = "cycles" /\ AmbulanceLogicRuns(ambulance)) =>
        \A i \in JunctionIds :
            (/\ ~junctions[i].hasAmbulancePassed
             /\ ambulance.position.x < GetJunctionCenter(i).x
             /\ DistanceLess(ambulance.position, GetJunctionCenter(i),
                             AmbulancePreemptionRadius))
            => (Preempted(junctions[i]) /\ OverrideColours(junctions[i]))

(* C6: while a light is overridden, setLightState without the override     *)
(* argument changes neither its colour nor its flag, whatever the colour   *)
(* asked for, and with the override argument it sets the colour; applying  *)
(* the phase state to a PREEMPTED junction changes none of its lights.     *)
C6_OverrideGuard ==
    \A i \in JunctionIds :
        /\ \A k \in 0 .. 3 : \A s \in LIGHT_STATE :
               LET light == junctions[i].trafficLights[k]
               IN  light.isOverridden =>
                       /\ SetLightState(light, s, FALSE) = light
                       /\ SetLightState(light, s, TRUE)
                              = [currentState |-> s, isOverridden |-> TRUE]
        /\ Preempted(junctions[i]) =>
               ApplyJunctionPhaseState(junctions[i]) = junctions[i]

(* An overridden RED light whose junction's frozen phase would show it GREEN *)
C6_Witness ==
    \E i \in JunctionIds :
        /\ junctions[i].trafficLights[1].isOverridden
        /\ junctions[i].trafficLights[1].currentState = "RED"
        /\ PhaseAt(junctions[i].currentPhaseIndex).phase = "NS_GREEN"
        /\ junctions[i].trafficLights[3].currentState = "GREEN"

(* C7: once hasAmbulancePassed is true it stays true, the junction is not  *)
(* PREEMPTED again and its reflector chain stays empty; no junction makes  *)
(* the NORMAL->PREEMPTED transition more than once.                        *)
C7_NoRetrigger ==
    /\ [][\A i \in JunctionIds :
            junctions[i].hasAmbulancePassed =>
                /\ junctions[i].hasAmbulancePassed'
                /\ ~junctions[i].isAmbulanceApproaching'
                /\ junctions[i].reflectorChain' = << >>]_vars
    /\ [](\A i \in JunctionIds : preemptions[i] <= 1)

(* On a later run the ambulance is back at the centre of junction 0, which *)
(* it passed on the run before                                             *)
C7_Witness ==
    /\ pc = "cycles"
    /\ ~activationPending
    /\ AmbulanceLogicRuns(ambulance)
    /\ ambulance.position.x = GetJunctionCenter(0).x
    /\ junctions[0].hasAmbulancePassed
    /\ preemptions[0] = 1
    /\ ~Preempted(junctions[0])

(* C8: the activation of the ambulance resets every junction's             *)
(* hasAmbulancePassed flag.                                                *)
C8_ActivationResetsFlags ==
    [][(activationPending /\ ~activationPending' /\ ambulance.exists) =>
          \A i \in JunctionIds : ~junctions[i].hasAmbulancePassed']_vars

IsPrefix(s, t) == Len(s) <= Len(t) /\ SubSeq(t, 1, Len(s)) = s

(* C9: a step appends at most one reflector to a junction's chain; no      *)
(* reflector is in a chain twice; while the junction stays PREEMPTED the   *)
(* chain only grows; and a non-empty chain becomes empty in exactly the    *)
(* steps that release the junction.                                        *)
C9_ChainGrowth ==
    /\ [][\A i \in JunctionIds :
            LET chain == junctions[i].reflectorChain
                chain2 == junctions[i].reflectorChain'
            IN  /\ Len(chain2) <= Len(chain) + 1
                /\ (Preempted(junctions[i]) /\ Preempted(junctions[i])')
                       => IsPrefix(chain, chain2)
                /\ (chain # << >> /\ chain2 = << >>) => Releases(i)
                /\ Releases(i) => (chain # << >> /\ chain2 = << >>)]_vars
    /\ [](\A i \in JunctionIds :
            LET chain == junctions[i].reflectorChain
            IN  \A m, n \in 1 .. Len(chain) : chain[m] = chain[n] => m = n)

(* Junction 1's chain holds every reflector while junction 0's, released,  *)
(* is empty                                                                *)
C9_Witness ==
    /\ Len(junctions[1].reflectorChain) = NumReflectors
    /\ Preempted(junctions[1])
    /\ junctions[0].hasAmbulancePassed
    /\ junctions[0].reflectorChain = << >>

----------------------------------------------------------------------------
(* Sensor chains frozen by an activation                                   *)

(* The state right after the activation callback has fired while junction  *)
(* j was PREEMPTED on phase p with the m sensors nearest to it chained:    *)
(* the ambulance is back at path[0], the junctions before j were released  *)
(* on the run the activation cut short, those after j are untouched.       *)
InitChain ==
    \E j \in JunctionIds, m \in 1 .. NumReflectors - 1,
       p \in DOMAIN JUNCTION_CYCLE_DEFINITION :
        /\ pc = "frame"
        /\ frame = 0
        /\ deltaTime = 0
        /\ shortFrames = 0
        /\ activationPending = FALSE
        /\ ambulance = AmbulanceActivate([NewAmbulance EXCEPT !.model = TRUE])
        /\ junctions =
               [i \in JunctionIds |->
                   IF i < j
                   THEN [ControlTrafficLightsForJunction(NewJunction(i), FALSE)
                            EXCEPT !.hasAmbulancePassed = TRUE]
                   ELSE IF i = j
                   THEN [ControlTrafficLightsForJunction(
                            [NewJunction(i) EXCEPT
                                !.currentPhaseIndex = p - 1,
                                !.currentPhaseTimer = PhaseAt(p - 1).duration],
                            TRUE)
                            EXCEPT !.isAmbulanceApproaching = TRUE,
                                   !.reflectorChain = [n \in 1 .. m |-> n - 1]]
                   ELSE NewJunction(i)]
        /\ statusText = Status("Approaching", -1)
        /\ preemptions = [i \in JunctionIds |-> IF i <= j THEN 1 ELSE 0]
        /\ cars = NoCars

NextChain ==
    \/ FullFrame
    \/ UpdateAmbulanceLogic
    \/ ManageJunctionCycles

SpecChain == InitChain /\ [][NextChain]_vars

(* C10: when updateAmbulanceLogic runs with a sensor in a PREEMPTED        *)
(* junction's chain, an un-fired sensor next in line to the most recently  *)
(* chained one (reflectorSpacing away from it) that the ambulance is       *)
(* outside the direct detection radius of is in the chain after the run.   *)
C10_ChainPropagation ==
    [][(pc = "logic" /\ AmbulanceLogicRuns(ambulance)) =>
          \A i \in JunctionIds : \A k \in ReflectorIds :
              LET chain == junctions[i].reflectorChain
              IN  (/\ Preempted(junctions[i])
                   /\ chain # << >>
                   /\ ~InChain(chain, k)
                   /\ Abs(k - chain[Len(chain)]) = 1
                   /\ ~CanDetectAmbulance(i, k, ambulance.position))
                  => InChain(junctions[i].reflectorChain', k)]_vars

----------------------------------------------------------------------------
(* Properties of the triggers and of the status text *)

(* C11: a step that appends a sensor to a junction's empty reflector chain *)
(* leaves the junction PREEMPTED with the override colours, and in every   *)
(* state (so at every tick boundary) a junction with a non-empty reflector *)
(* chain is PREEMPTED.                                                     *)
C11_SensorPreempts ==
    /\ [][\A i \in JunctionIds :
            (junctions[i].reflectorChain = << >>
                 /\ junctions[i].reflectorChain' # << >>)
            => (Preempted(junctions[i])' /\ OverrideColours(junctions[i])')]_vars
    /\ [](\A i \in JunctionIds :
            junctions[i].reflectorChain # << >> => Preempted(junctions[i]))

(* The end of the tick in which junction 2 gets its first sensor, after    *)
(* the two junctions before it were released with their chains emptied     *)
C11_Witness ==
    /\ TickBoundary
    /\ Len(junctions[2].reflectorChain) = 1
    /\ Preempted(junctions[2])
    /\ junctions[0].hasAmbulancePassed
    /\ junctions[1].hasAmbulancePassed

(* The proximity condition of junction i in the current tick, lines 342 *)
ZoneCondition(i) ==
    /\ MovingTowardsJunction(ambulance, GetJunctionCenter(i))
    /\ DistanceLess(ambulance.position, GetJunctionCenter(i),
                    AmbulancePreemptionRadius)

----------------------------------------------------------------------------
(* The light cycle while the ambulance model has not been loaded yet: the  *)
(* frames run, updateAmbulanceLogic returns at once and every junction     *)
(* stays under its normal cycle.                                           *)

MaxCycleShortFrames == 5

(* A frame with the short deltaTime, up to MaxCycleShortFrames of them *)
CycleShortFrame ==
    /\ shortFrames < MaxCycleShortFrames
    /\ AnimateAmbulance(ShortDeltaTime)
    /\ shortFrames' = shortFrames + 1

NextCycle ==
    \/ Activate
    \/ FullFrame
    \/ CycleShortFrame
    \/ UpdateAmbulanceLogic
    \/ ManageJunctionCycles

SpecCycle == Init /\ [][NextCycle]_vars

(* The sum of the deltaTimes of the frames run so far, in ms (while the    *)
(* frame counter counts)                                                   *)
Elapsed == MaxDeltaTime * (frame - shortFrames) + ShortDeltaTime * shortFrames

RECURSIVE SumDurations(_)
SumDurations(n) ==
    IF n = 0 THEN 0 ELSE PhaseAt(n - 1).duration + SumDurations(n - 1)

(* The cycle length: the sum of the six phase durations *)
CycleDuration == SumDurations(CycleLength)

(* C13: at a tick boundary at which the tick sizes so far sum to a         *)
(* positive multiple of the cycle length, every junction (all have stayed  *)
(* in NORMAL mode) is on phase 0 with the full duration of phase 0 on its  *)
(* timer.                                                                  *)
C13_CycleReturns ==
    (/\ TickBoundary
     /\ frame <= MaxActivateFrame
     /\ Elapsed > 0
     /\ Elapsed % CycleDuration = 0)
    => \A i \in JunctionIds :
           junctions[i].isUnderNormalCycle =>
               /\ junctions[i].currentPhaseIndex = 0
               /\ junctions[i].currentPhaseTimer = PhaseAt(0).duration

----------------------------------------------------------------------------
(* The animation loop keeps running: requestAnimationFrame schedules the   *)
(* next frame from within animate, and a frame runs to its end.            *)

FairSpecCycle ==
    /\ SpecCycle
    /\ WF_vars(FullFrame \/ CycleShortFrame)
    /\ WF_vars(UpdateAmbulanceLogic)
    /\ WF_vars(ManageJunctionCycles)

(* C14: a junction starts on phase 0 with its full duration; a run of      *)
(* manageJunctionCycles on a junction in NORMAL mode takes deltaTime off   *)
(* the timer and, when the result is <= 0, advances the index by one       *)
(* modulo 6 and sets the timer to the full duration of the new phase, and  *)
(* it leaves a PREEMPTED junction's index and timer alone; the phases are  *)
(* in the order EW_GREEN, EW_YELLOW, ALL_RED, NS_GREEN, NS_YELLOW,         *)
(* ALL_RED; and every junction, none of them overridden, leaves the phase  *)
(* it is on again and again.                                               *)
C14_CycleOrder ==
    /\ \A i \in JunctionIds :
           /\ junctions[i].currentPhaseIndex = 0
           /\ junctions[i].currentPhaseTimer = PhaseAt(0).duration
    /\ [n \in 1 .. CycleLength |-> JUNCTION_CYCLE_DEFINITION[n].phase]
           = << "EW_GREEN", "EW_YELLOW", "ALL_RED", "NS_GREEN", "NS_YELLOW", "ALL_RED" >>
    /\ [][pc = "cycles" =>
            \A i \in JunctionIds :
                LET index == junctions[i].currentPhaseIndex
                    timer == junctions[i].currentPhaseTimer
                    after == junctions[i]'
                IN  IF ~junctions[i].isUnderNormalCycle
                    THEN /\ after.currentPhaseIndex = index
                         /\ after.currentPhaseTimer = timer
                    ELSE IF timer - deltaTime > 0
                    THEN /\ after.currentPhaseIndex = index
                         /\ after.currentPhaseTimer = timer - deltaTime
                    ELSE /\ after.currentPhaseIndex = (index + 1) % 6
                         /\ after.currentPhaseTimer
                                = PhaseAt(after.currentPhaseIndex).duration]_vars
    /\ \A i \in JunctionIds :
           []<><<junctions[i].currentPhaseIndex' # junctions[i].currentPhaseIndex>>_vars

(* A junction leaves the last phase of its cycle for phase 0 at the end   *)
(* of a short tick that overshoots the phase                               *)
C14_Witness ==
    /\ pc = "cycles"
    /\ deltaTime = ShortDeltaTime
    /\ junctions[2].isUnderNormalCycle
    /\ junctions[2].currentPhaseIndex = 5
    /\ junctions[2].currentPhaseTimer - deltaTime < 0

----------------------------------------------------------------------------
(* The colours of the lights *)

(* The colour the phase named phase gives light k: the east-bound and      *)
(* west-bound lights are 3 and 2, the north-bound and south-bound 1 and 0  *)
PhaseColour(phase, k) ==
    IF phase = "EW_GREEN" /\ k \in {2, 3} THEN "GREEN"
    ELSE IF phase = "EW_YELLOW" /\ k \in {2, 3} THEN "YELLOW"
    ELSE IF phase = "NS_GREEN" /\ k \in {0, 1} THEN "GREEN"
    ELSE IF phase = "NS_YELLOW" /\ k \in {0, 1} THEN "YELLOW"
    ELSE "RED"

(* C15: at every tick boundary each light of a junction in NORMAL mode     *)
(* shows the colour its junction's current phase gives it, and the lights  *)
(* of a PREEMPTED junction show the override colours.                      *)
C15_PhaseColours ==
    TickBoundary =>
        \A i \in JunctionIds :
            DOMAIN junctions[i].trafficLights = 0 .. 3 =>
                IF Preempted(junctions[i])
                THEN OverrideColours(junctions[i])
                ELSE \A k \in 0 .. 3 :
                         junctions[i].trafficLights[k].currentState
                             = PhaseColour(PhaseAt(junctions[i].currentPhaseIndex).phase, k)

(* The tick boundary right after junction 0's release, all its lights RED  *)
(* on ALL_RED, while junction 1 is on a north-south phase                  *)
C15_Witness ==
    /\ TickBoundary
    /\ junctions[0].hasAmbulancePassed
    /\ junctions[0].currentPhaseIndex = SafePhaseIndex
    /\ junctions[0].currentPhaseTimer = PhaseAt(SafePhaseIndex).duration - deltaTime
    /\ \A k \in 0 .. 3 : junctions[0].trafficLights[k].currentState = "RED"
    /\ ~Preempted(junctions[1])
    /\ junctions[1].trafficLights[1].currentState \in {"GREEN", "YELLOW"}
    /\ junctions[1].trafficLights[3].currentState = "RED"

----------------------------------------------------------------------------
(* A junction with fewer than four lights *)

(* The junctionData of junction i had setupEnvironment pushed only n       *)
(* lights for it: applyJunctionPhaseState returns at once and the lights   *)
(* keep the RED of their constructor.                                      *)
JunctionWithLights(i, n) ==
    ApplyJunctionPhaseState(
        [NewJunction(i) EXCEPT
            !.trafficLights = [k \in 0 .. (n - 1) |-> NewTrafficLight]])

(* The state after construction with junction 1 short of lights *)
InitFewLights ==
    \E n \in 0 .. 3 :
        /\ pc = "frame"
        /\ frame = 0
        /\ deltaTime = 0
        /\ shortFrames = 0
        /\ activationPending = TRUE
        /\ ambulance = NewAmbulance
        /\ junctions = [i \in JunctionIds |->
                           IF i = 1 THEN JunctionWithLights(i, n) ELSE NewJunction(i)]
        /\ statusText = Status("", -1)
        /\ preemptions = [i \in JunctionIds |-> 0]
        /\ cars = NoCars

SpecFewLights == InitFewLights /\ [][Next]_vars

----------------------------------------------------------------------------
(* Cars.  The cars read the junctions and the ambulance and write neither, *)
(* so they are followed in a specification of their own: the ambulance     *)
(* loaded and activated before the first frame, one car on each side of    *)
(* the centre line, travelling in opposite directions, drawn from the      *)
(* positions and speeds setupEnvironment draws from (speeds between        *)
(* minCarSpeed and maxCarSpeed, x within 0.95 roadExtentX of the middle).  *)

CarStartStride == 15000
ShortFrameStride == 256

(* setupEnvironment, lines 219 and 225: randFloatSpread(roadExtentX * 1.9) *)
MaxCarStartX ==
    (((NumJunctions + 1) * RoadLength + NumJunctions * JunctionSize) * Milli * 19)
        \div 40

CarStartXs ==
    { k * CarStartStride :
        k \in (0 - MaxCarStartX \div CarStartStride) .. (MaxCarStartX \div CarStartStride) }

CarSpeeds == { s \in {140, 200} : s >= MinCarSpeed /\ s <= MaxCarSpeed }

InitCars ==
    \E x \in CarStartXs, travelDir \in {-1, 1}, speed \in CarSpeeds :
        /\ pc = "frame"
        /\ frame = 0
        /\ deltaTime = 0
        /\ shortFrames = 0
        /\ activationPending = FALSE
        /\ ambulance = AmbulanceActivate([NewAmbulance EXCEPT !.model = TRUE])
        /\ junctions = [i \in JunctionIds |-> NewJunction(i)]
        /\ statusText = Status("Approaching", -1)
        /\ preemptions = [i \in JunctionIds |-> 0]
        /\ cars = << NewCar(x, -1, travelDir, speed),
                     NewCar(0 - x, 1, 0 - travelDir, speed) >>

CarFullFrame ==
    /\ frame <= MaxActivateFrame
    /\ FullFrame

CarShortFrame ==
    /\ frame <= MaxActivateFrame
    /\ frame % ShortFrameStride = 0
    /\ ShortFrame

NextCars ==
    \/ CarFullFrame
    \/ CarShortFrame
    \/ UpdateAmbulanceLogic
    \/ ManageJunctionCycles

SpecCars == InitCars /\ [][NextCars]_vars

(* C16: at the end of every tick no car has isStoppedForLight set together *)
(* with a nonzero currentSpeed, and a car on a creep speed (0.3 or 0.25 of *)
(* its speed) has isStoppedForLight false.                                 *)
C16_StoppedMeansStill ==
    TickBoundary =>
        \A n \in DOMAIN cars :
            /\ cars[n].isStoppedForLight => cars[n].currentSpeed = 0
            /\ cars[n].currentSpeed \in {TruncDiv(cars[n].speed * 3, 10),
                                         TruncDiv(cars[n].speed, 4)}
                   => ~cars[n].isStoppedForLight

(* One car stands at a red or yellow light while the other, evading, is on *)
(* the creep speed                                                         *)
C16_Witness ==
    /\ TickBoundary
    /\ \E n \in DOMAIN cars :
           /\ cars[n].isStoppedForLight
           /\ cars[n].currentSpeed = 0
           /\ cars[3 - n].isEvading
           /\ ~cars[3 - n].isStoppedForLight
           /\ cars[3 - n].currentSpeed = TruncDiv(cars[3 - n].speed * 3, 10)

(* roadWidth / 2 minus half the car width, in 1/400 units *)
RoadHalfWidthForCar == (RoadWidth * Q * Fine) \div 2 - CarWidthFine \div 2

(* C17: a car in the ambulance's lane that starts evading in a tick gets a *)
(* target offset farther from the ambulance's lane than its own lane is,   *)
(* and at every tick boundary every car's target offset and z are within   *)
(* roadWidth / 2 minus half the car width of the centre line.              *)
C17_EvadeAwayWithinRoad ==
    /\ [][\A n \in DOMAIN cars :
             (/\ cars[n].initialZ = AmbulanceLaneZ(ambulance)
              /\ ~cars[n].isEvading
              /\ cars'[n].isEvading)
                 => Abs(cars'[n].targetZ - AmbulanceLaneZ(ambulance))
                        > Abs(cars[n].targetZ - AmbulanceLaneZ(ambulance))]_vars
    /\ [](TickBoundary =>
            \A n \in DOMAIN cars :
                /\ Abs(cars[n].targetZ) <= RoadHalfWidthForCar
                /\ Abs(cars[n].z) <= RoadHalfWidthForCar)

(* A car of the ambulance's lane is evading, part of the way to its target *)
C17_Witness ==
    /\ TickBoundary
    /\ \E n \in DOMAIN cars :
           /\ cars[n].initialZ = AmbulanceLaneZ(ambulance)
           /\ cars[n].isEvading
           /\ cars[n].targetZ = cars[n].initialZ + CarEvadeShiftZFine
           /\ cars[n].z > cars[n].initialZ
           /\ cars[n].z < cars[n].targetZ

(* The car is at least 0.8 laneWidth to the side of the ambulance's lane *)
InDifferentLane(car) ==
    Abs(car.z - AmbulanceLaneZ(ambulance)) * 10 >= LaneWidthFine * 8

(* The car is at least the evasion distance from the ambulance along x, or *)
(* there is no ambulance                                                   *)
BeyondEvadeDistance(car) ==
    \/ ~ambulance.exists
    \/ Abs(car.x - ToMilli(ambulance.position.x)) >= CarEvadeDistance * Milli

(* C18: at every tick boundary a car that is in a different lane from the  *)
(* ambulance, or beyond the evasion distance, is not evading and has its   *)
(* target offset at its original lane offset.                              *)
C18_NoEvadeElsewhere ==
    TickBoundary =>
        \A n \in DOMAIN cars :
            (InDifferentLane(cars[n]) \/ BeyondEvadeDistance(cars[n]))
                => /\ ~cars[n].isEvading
                   /\ cars[n].targetZ = cars[n].initialZ

(* After many ticks the car of the other lane is ahead of the ambulance    *)
(* within the evasion distance, and the car of the ambulance's lane is     *)
(* beyond it, on its way back to its lane                                  *)
C18_Witness ==
    /\ TickBoundary
    /\ frame > 100
    /\ AmbulanceActive(ambulance)
    /\ InDifferentLane(cars[2])
    /\ InEvasionWindow(cars[2], ambulance)
    /\ ~cars[2].isEvading
    /\ BeyondEvadeDistance(cars[1])
    /\ cars[1].z # cars[1].initialZ
    /\ ~cars[1].isEvading

(* The ambulance has reached the end of its path and its fade is running *)
Fading(amb) == amb.exists /\ amb.isDeactivating /\ ~amb.hasFadedOut

(* C19: at every tick boundary from the deactivation of the ambulance to   *)
(* the end of its fade, a car of the ambulance's lane that is inside the   *)
(* evasion window (ahead of or overlapping the ambulance, within the       *)
(* evasion distance) is evading.                                           *)
C19_EvasionDuringFade ==
    (TickBoundary /\ Fading(ambulance)) =>
        \A n \in DOMAIN cars :
            (InEvasionWindow(cars[n], ambulance) /\ ~InDifferentLane(cars[n]))
                => cars[n].isEvading

(* The car is less than 0.8 laneWidth to the side of the ambulance's lane, *)
(* not more than the overlap margin (1.5 car lengths) behind the ambulance *)
(* along the ambulance's eastward travel, and within the evasion distance  *)
AheadOfAmbulanceInLane(car) ==
    LET dX == car.x - ToMilli(ambulance.position.x)
    IN  /\ ~InDifferentLane(car)
        /\ 2 * dX > 0 - CarLengthMilli * 3
        /\ Abs(dX) < CarEvadeDistance * Milli

(* C21: at the end of every tick with the ambulance active, every car,     *)
(* eastbound or westbound, that is in or near the ambulance's lane, ahead  *)
(* of or overlapping the ambulance and within the evasion distance is      *)
(* evading, and no car more than the overlap margin behind the ambulance   *)
(* begins evading in the tick.                                             *)
C21_AheadCarsEvade ==
    [][(pc = "cycles" /\ AmbulanceActive(ambulance)) =>
          \A n \in DOMAIN cars :
              /\ AheadOfAmbulanceInLane(cars'[n]) => cars'[n].isEvading
              /\ (~cars[n].isEvading /\ cars'[n].isEvading)
                     => 2 * (cars'[n].x - ToMilli(ambulance.position.x))
                            > 0 - CarLengthMilli * 3]_vars

(* C22: in every tick that a car starts stopped for a signal with the      *)
(* ambulance inside its needs-way window, the car ends the tick with       *)
(* isStoppedForLight false and a currentSpeed that is nonzero, of the sign *)
(* of its speed and smaller than it in magnitude.                          *)
C22_NeedsWayOverridesStop ==
    [][pc = "cycles" =>
          \A n \in DOMAIN cars :
              (/\ cars[n].isStoppedForLight
               /\ AmbulanceIsVeryClose(cars[n], ambulance))
                  => /\ ~cars'[n].isStoppedForLight
                     /\ cars'[n].currentSpeed # 0
                     /\ Sign(cars'[n].currentSpeed) = Sign(cars'[n].speed)
                     /\ Abs(cars'[n].currentSpeed) < Abs(cars'[n].speed)]_vars

(* updateCarLogic, lines 548-563 and ProceduralCar.js lines 151 and 166:   *)
(* the car has a relevant junction in js, its light there is RED or        *)
(* YELLOW, and the junction centre is ahead of the car by less than        *)
(* carStopDistanceToJunction + length / 2                                  *)
InStopWindowAtRed(car, js) ==
    LET j == RelevantJunction(car, js, 0)
    IN  /\ j # -1
        /\ RelevantTrafficLight(car, js[j]).currentState \in {"RED", "YELLOW"}
        /\ LET dist == (ToMilli(GetJunctionCenter(j).x) - car.x) * Sign(car.speed)
           IN  /\ dist > 0
               /\ dist < CarStopDistanceToJunction * Milli + CarLengthMilli \div 2

(* The car as checkAndHandleTrafficLight leaves it, for its relevant       *)
(* junction in js                                                          *)
AfterTrafficLight(car, amb, js) ==
    LET j == RelevantJunction(car, js, 0)
    IN  CheckAndHandleTrafficLight(car, js[j], RelevantTrafficLight(car, js[j]),
                                   AmbulanceIsVeryClose(car, amb))

(* C23: in every tick a car that is not evading, with its relevant light   *)
(* RED or YELLOW and the junction centre inside the stop window ahead of   *)
(* it, has isStoppedForLight set and currentSpeed 0 after the traffic      *)
(* light handling and keeps its x in the tick; and no step sets            *)
(* isStoppedForLight on a car that is evading.                             *)
C23_StopsAtRed ==
    /\ [][pc = "cycles" =>
            \A n \in DOMAIN cars :
                (~cars[n].isEvading /\ InStopWindowAtRed(cars[n], junctions'))
                    => /\ AfterTrafficLight(cars[n], ambulance, junctions').isStoppedForLight
                       /\ AfterTrafficLight(cars[n], ambulance, junctions').currentSpeed = 0
                       /\ cars'[n].x = cars[n].x]_vars
    /\ [][\A n \in DOMAIN cars :
             (cars[n].isEvading /\ ~cars[n].isStoppedForLight)
                 => ~cars'[n].isStoppedForLight]_vars

(* One car stands in the stop window of a red or yellow light, and the     *)
(* other, evading, is in the stop window of one without being stopped      *)
C23_Witness ==
    /\ TickBoundary
    /\ \E n \in DOMAIN cars :
           /\ ~cars[n].isEvading
           /\ InStopWindowAtRed(cars[n], junctions)
           /\ cars[n].isStoppedForLight
           /\ cars[n].currentSpeed = 0
           /\ cars[3 - n].isEvading
           /\ InStopWindowAtRed(cars[3 - n], junctions)
           /\ ~cars[3 - n].isStoppedForLight

(* The sign of the x offset of the ambulance's current path target from    *)
(* the ambulance                                                           *)
TargetDirectionX(amb) == Sign(PathAt(amb.currentPathIndex).x - amb.position.x)

(* C24: whenever updateAmbulanceLogic runs, for every junction not yet     *)
(* passed, movingToward is true if the current path target lies from the   *)
(* ambulance in the direction of the junction centre (at, beyond or short  *)
(* of the centre) or the ambulance is within 1.5 junctionSize of the       *)
(* centre, and false if the target lies in the opposite direction and the  *)
(* ambulance is not within 1.5 junctionSize.                               *)
C24_MovingToward ==
    (pc = "logic" /\ AmbulanceLogicRuns(ambulance)) =>
        \A i \in JunctionIds :
            ~junctions[i].hasAmbulancePassed =>
                LET center == GetJunctionCenter(i)
                    toCentre == Sign(center.x - ambulance.position.x)
                    toTarget == TargetDirectionX(ambulance)
                    near == DistanceLess(ambulance.position, center,
                                         (JunctionSize * 3) \div 2)
                    moving == MovingTowardsJunction(ambulance, center)
                IN  /\ ((toTarget # 0 /\ toTarget = toCentre) \/ near) => moving
                    /\ (toTarget # 0 /\ toTarget = 0 - toCentre /\ ~near) => ~moving

(* The light shows GREEN or YELLOW *)
NonRed(light) == light.currentState \in {"GREEN", "YELLOW"}

(* C26: in every state no junction with four lights has a north-south      *)
(* light (0 or 1) and an east-west light (2 or 3) that are both GREEN or   *)
(* YELLOW.                                                                 *)
C26_ConflictFree ==
    \A i \in JunctionIds :
        Cardinality(DOMAIN junctions[i].trafficLights) = 4 =>
            ~(/\ \E k \in {0, 1} : NonRed(junctions[i].trafficLights[k])
              /\ \E k \in {2, 3} : NonRed(junctions[i].trafficLights[k]))

(* Junction 1 has just been preempted out of a north-south phase, junction *)
(* 0 has been released, and junction 2 shows north-south green or yellow   *)
C26_Witness ==
    /\ pc = "cycles"
    /\ junctions[1].isAmbulanceApproaching
    /\ PhaseAt(junctions[1].currentPhaseIndex).phase \in {"NS_GREEN", "NS_YELLOW"}
    /\ Len(junctions[1].reflectorChain) = 1
    /\ junctions[0].hasAmbulancePassed
    /\ \E k \in {0, 1} : NonRed(junctions[2].trafficLights[k])

(* C29: at the end of every tick no car whose relevant junction is         *)
(* PREEMPTED is stopped for a light.                                       *)
C29_PreemptedUnstopsCars ==
    TickBoundary =>
        \A n \in DOMAIN cars :
            LET j == RelevantJunction(cars[n], junctions, 0)
            IN  (j # -1 /\ junctions[j].isAmbulanceApproaching)
                    => ~cars[n].isStoppedForLight

(* A car of the ambulance's lane is inside the stop window of a PREEMPTED  *)
(* junction, evading at speed 0 as a car released from a stop is, and not  *)
(* stopped                                                                 *)
C29_Witness ==
    /\ TickBoundary
    /\ \E n \in DOMAIN cars :
           LET j == RelevantJunction(cars[n], junctions, 0)
               dist == (ToMilli(GetJunctionCenter(j).x) - cars[n].x)
                           * Sign(cars[n].speed)
           IN  /\ j # -1
               /\ junctions[j].isAmbulanceApproaching
               /\ dist > 0
               /\ dist < CarStopDistanceToJunction * Milli + CarLengthMilli \div 2
               /\ cars[n].isEvading
               /\ cars[n].currentSpeed = 0
               /\ ~cars[n].isStoppedForLight

(* C30: at every tick boundary a car that is not stopped for a light has a *)
(* nonzero currentSpeed of the sign of its speed, and in every state a     *)
(* car's currentSpeed is 0 or has the sign of its speed and at most its    *)
(* magnitude.                                                              *)
C30_UnstoppedCarsMove ==
    \A n \in DOMAIN cars :
        /\ (TickBoundary /\ ~cars[n].isStoppedForLight)
               => /\ cars[n].currentSpeed # 0
                  /\ Sign(cars[n].currentSpeed) = Sign(cars[n].speed)
        /\ \/ cars[n].currentSpeed = 0
           \/ /\ Sign(cars[n].currentSpeed) = Sign(cars[n].speed)
              /\ Abs(cars[n].currentSpeed) <= Abs(cars[n].speed)

----------------------------------------------------------------------------
(* Liveness.  requestAnimationFrame keeps calling animate and animate runs *)
(* to its end, so each of the three steps of a frame is taken when it can  *)
(* be.  Each is enabled in every state with its pc value and is the only   *)
(* step that changes pc from that value, so the fairness is on pc.         *)

FrameStep == pc = "frame" /\ pc' \in {"logic", "cycles"}

LogicStep == pc = "logic" /\ pc' = "cycles"

CycleStep == pc = "cycles" /\ pc' = "frame"

FairSpec == Spec /\ WF_pc(FrameStep) /\ WF_pc(LogicStep) /\ WF_pc(CycleStep)

(* C25: the waypoint index never decreases except by activation; the       *)
(* ambulance starts deactivating exactly in the step that takes the index  *)
(* to the path length; while it deactivates the fade timer grows by each   *)
(* tick's deltaTime and it fades out only with the timer at the fade       *)
(* duration or more, and it does fade out; once faded it is removed with   *)
(* status 'Departed'; and while it is deactivating or gone no junction     *)
(* changes between NORMAL and PREEMPTED or is marked passed.               *)
C25_Lifecycle ==
    /\ [][activationPending' = activationPending
             => ambulance'.currentPathIndex >= ambulance.currentPathIndex]_vars
    /\ [][(~ambulance.isDeactivating /\ ambulance'.isDeactivating)
             <=> (/\ ambulance.currentPathIndex < PathLength
                  /\ ambulance'.currentPathIndex = PathLength)]_vars
    /\ [][(pc = "frame" /\ pc' # "frame" /\ Fading(ambulance))
             => /\ ambulance'.fadeOutTimer = ambulance.fadeOutTimer + deltaTime'
                /\ deltaTime' > 0
                /\ ambulance'.hasFadedOut
                       <=> ambulance'.fadeOutTimer >= AmbulanceFadeOutDuration]_vars
    /\ [][(~ambulance.isDeactivating /\ ambulance'.isDeactivating)
             => ambulance'.fadeOutTimer = 0]_vars
    /\ Fading(ambulance) ~> ~ambulance.exists
    /\ [](ambulance.hasFadedOut
             => ~ambulance.exists /\ statusText = Status("Departed", -1))
    /\ [][(ambulance'.isDeactivating \/ ~ambulance'.exists)
             => \A i \in JunctionIds :
                    /\ junctions'[i].isAmbulanceApproaching
                           = junctions[i].isAmbulanceApproaching
                    /\ junctions'[i].hasAmbulancePassed
                           = junctions[i].hasAmbulancePassed]_vars

(* The ambulance has faded out and is gone *)
C25_Witness ==
    /\ TickBoundary
    /\ ~ambulance.exists
    /\ ambulance.hasFadedOut
    /\ ambulance.currentPathIndex = PathLength
    /\ ambulance.fadeOutTimer >= AmbulanceFadeOutDuration
    /\ statusText = Status("Departed", -1)

(* C27: every junction that is PREEMPTED is released to NORMAL later on,   *)
(* and no junction is PREEMPTED, with overridden lights or with its cycle  *)
(* stopped, once the waypoint index has reached the path length.           *)
C27_ReleasedBeforeEnd ==
    /\ \A i \in JunctionIds :
           Preempted(junctions[i]) ~> ~Preempted(junctions[i])
    /\ [](ambulance.currentPathIndex >= PathLength =>
            \A i \in JunctionIds :
                /\ ~Preempted(junctions[i])
                /\ junctions[i].isUnderNormalCycle
                /\ \A k \in DOMAIN junctions[i].trafficLights :
                       ~junctions[i].trafficLights[k].isOverridden)

(* The ambulance has deactivated at the end of its path after preempting   *)
(* every junction once, and every junction is back on its cycle            *)
C27_Witness ==
    /\ TickBoundary
    /\ ambulance.isDeactivating
    /\ ambulance.currentPathIndex = PathLength
    /\ \A i \in JunctionIds :
           /\ preemptions[i] = 1
           /\ junctions[i].hasAmbulancePassed
           /\ ~Preempted(junctions[i])
           /\ junctions[i].isUnderNormalCycle

(* The distance along x from the ambulance to its current path target *)
DistanceToTargetQ(amb) == Abs(PathAt(amb.currentPathIndex).x - amb.position.x)

(* C28: once the model is loaded the waypoint index reaches the path       *)
(* length, and every frame in which the ambulance is on its way either     *)
(* advances the index by one and leaves the position, or leaves the index  *)
(* and brings the ambulance one step of ambulanceSpeed nearer its target.  *)
C28_ReachesPathEnd ==
    /\ ambulance.model ~> (ambulance.currentPathIndex = PathLength)
    /\ [][(/\ pc = "frame"
            /\ pc' # "frame"
            /\ ambulance.model
            /\ ambulance.currentPathIndex < PathLength)
             => \/ /\ ambulance'.currentPathIndex = ambulance.currentPathIndex + 1
                   /\ ambulance'.position = ambulance.position
                \/ /\ ambulance'.currentPathIndex = ambulance.currentPathIndex
                   /\ DistanceToTargetQ(ambulance')
                          = DistanceToTargetQ(ambulance) - AmbulanceSpeedQ]_vars

(* The ambulance stands on the last point of its path with the index at    *)
(* the path length                                                         *)
C28_Witness ==
    /\ ambulance.model
    /\ ambulance.exists
    /\ ambulance.currentPathIndex = PathLength
    /\ ambulance.position = PathAt(PathLength - 1)

====
